---- MODULE Spec2Model ----
(***************************************************************************)
(* Model of the `nodes-config edit` command of ldshell                     *)
(* (logdevice/ops/ldshell/autoload/commands/nodes_config.py).              *)
(*                                                                         *)
(* A configuration document is a JSON object.  The model keeps the three   *)
(* keys the command can tell apart: "version", "last_timestamp" and one    *)
(* payload key "nodes".  A key the user deleted has the value Absent.      *)
(* A text is what lives in the editor's temporary file: either the text of *)
(* a JSON object in some layout, the text of a JSON value that is not an   *)
(* object, or text that is not JSON at all.                                *)
(***************************************************************************)
EXTENDS Integers, Sequences, FiniteSets, TLC

\* ---- bounds -------------------------------------------------------------
MaxVersion == 3
MaxTime == 3
MaxNodes == 1
MaxAttempts == 2
MaxItems == 2

\* ---- values -------------------------------------------------------------
\* The value of a key that is not in the document.
Absent == 0 - 1

Versions == 1..MaxVersion
Times == 1..MaxTime
NodeVals == 0..MaxNodes

\* Documents the remote store can hold: every required field is present.
\* The stored last_timestamp was written by some earlier writer and can be
\* ahead of or behind this host's clock.
BaseDocs ==
  [version : 1..(MaxVersion - 1), last_timestamp : {2}, nodes : {0}]

\* Documents the user can type: any field may be changed or deleted.
UserDocs ==
  [version : Versions \cup {Absent},
   last_timestamp : Times \cup {Absent},
   nodes : NodeVals]

NoDoc == [version |-> Absent, last_timestamp |-> Absent, nodes |-> 0]

\* Layouts of the text of one JSON object: 0 is the layout that
\* json.dumps(indent=4, sort_keys=True) produces, 1 is any other whitespace
\* or key order.
Layouts == {0, 1}

\* edited_text = None
NoText == [kind |-> "none", doc |-> NoDoc, layout |-> 0]

MalformedText == [kind |-> "malformed", doc |-> NoDoc, layout |-> 0]

\* Well-formed JSON whose top level is a list, not an object.
ListText == [kind |-> "list", doc |-> NoDoc, layout |-> 0]

Texts ==
  [kind : {"object"}, doc : UserDocs, layout : Layouts]
    \cup {MalformedText, ListText}

\* ---- pure functions -----------------------------------------------------

\* json.dumps(d, indent=4, sort_keys=True) of a dict: its canonical text.
Dumps(d) == [kind |-> "object", doc |-> d, layout |-> 0]

\* json.loads raises json.JSONDecodeError on this text
LoadsRaises(text) == text.kind = "malformed"

\* json.loads(text) of well-formed text: the parsed value; the layout of the
\* text is lost.
Loads(text) ==
  IF text.kind = "object"
    THEN [type |-> "dict", doc |-> text.doc]
    ELSE [type |-> "list", doc |-> NoDoc]

\* A dict as a JSON value.
AsDict(d) == [type |-> "dict", doc |-> d]

\* One line of the canonical text per present key.
KeyLine(d, k) == IF d[k] = Absent THEN <<>> ELSE << <<k, d[k]>> >>

\* json.dumps(value, indent=4, sort_keys=True).split("\n"): the lines of the
\* canonical text, keys in sorted order.
DumpsLines(v) ==
  IF v.type = "list"
    THEN << <<"[", 0>>, <<"]", 0>> >>
    ELSE << <<"{", 0>> >> \o KeyLine(v.doc, "last_timestamp")
           \o KeyLine(v.doc, "nodes") \o KeyLine(v.doc, "version")
           \o << <<"}", 0>> >>

\* next(difflib.unified_diff(a, b, lineterm=""), None) is None
DiffIsEmpty(a, b) == a = b

\* Variant: the no-change check is left out.
UnchangedSkipped(orig, new_text) == FALSE

\* Variant: the saved text is compared with the seed text as written, not
\* re-serialized.
UnchangedRawText(orig, new_text) == new_text = Dumps(orig)

\* lines 130-136: the parsed text re-serializes to the baseline's lines
Unchanged(orig, new_text) ==
  DiffIsEmpty(DumpsLines(AsDict(orig)), DumpsLines(Loads(new_text)))

\* dict.get(key, default)
Get(d, k, default) == IF d[k] = Absent THEN default ELSE d[k]

\* Variant: the version is never bumped.
ReconcileVersionNoBump(edited, orig) == Get(edited, "version", orig.version)

\* Variant: the version is always forced to the baseline's successor.
ReconcileVersionAlwaysNext(edited, orig) == orig.version + 1

\* Variant: the bump goes the wrong way.
ReconcileVersionDown(edited, orig) ==
  IF Get(edited, "version", orig.version) = orig.version
    THEN orig.version - 1
    ELSE edited.version

\* lines 139-140
ReconcileVersion(edited, orig) ==
  IF Get(edited, "version", orig.version) = orig.version
    THEN orig.version + 1
    ELSE edited.version

\* Variant: an untouched timestamp is left as it is.
ReconcileTimestampKeep(edited, orig, now) ==
  Get(edited, "last_timestamp", orig.last_timestamp)

\* lines 142-146
ReconcileTimestamp(edited, orig, now) ==
  IF Get(edited, "last_timestamp", orig.last_timestamp) = orig.last_timestamp
    THEN now
    ELSE edited.last_timestamp

\* Variant: the two fields are set on a copy of the baseline.
ReconcileOntoBaseline(edited, orig, now) ==
  [orig EXCEPT !.version = ReconcileVersion(edited, orig),
               !.last_timestamp = ReconcileTimestamp(edited, orig, now)]

\* lines 139-146: the two in-place assignments to edited_nc
Reconcile(edited, orig, now) ==
  [edited EXCEPT !.version = ReconcileVersion(edited, orig),
                 !.last_timestamp = ReconcileTimestamp(edited, orig, now)]

\* ---- values of the administrative commands -------------------------------
Commands == {"show", "edit", "bootstrap", "shrink"}

\* Members of LocationScope that the bootstrap docstring names (lines 198-205).
LocationScope == {"NODE", "RACK", "REGION"}

\* Scope names a caller can pass.
ScopeStrs == {"node", "rack", "RACK", "galaxy"}

Factors == {1, 2}

\* str.upper()
Upper(str) ==
  CASE str = "node" -> "NODE"
    [] str = "rack" -> "RACK"
    [] str = "RACK" -> "RACK"
    [] str = "galaxy" -> "GALAXY"

\* metadata_replicate_across.items(): pairs with distinct keys, in order.
ItemSeqs ==
  UNION {{q \in [1..n -> ScopeStrs \X Factors] :
            \A i, j \in 1..n : q[i][1] = q[j][1] => i = j} : n \in 0..MaxItems}

NodeIndexes == {7, 9}

IndexSeqs == UNION {[1..n -> NodeIndexes] : n \in 0..MaxItems}

\* Variant: the name is looked up as given.
HasInvalidScopeCaseSensitive(its) ==
  \E i \in 1..Len(its) : its[i][1] \notin LocationScope

\* LocationScope[scope_str.upper()] raises KeyError for some item: line 230
HasInvalidScope(its) ==
  \E i \in 1..Len(its) : Upper(its[i][1]) \notin LocationScope

\* The loop of lines 228-233 run to its end: a later item with the same
\* scope overwrites an earlier one.
ReplicationProperty(its) ==
  {<<Upper(its[i][1]), its[i][2]>> : i \in
     {k \in 1..Len(its) :
        \A j \in (k + 1)..Len(its) : Upper(its[j][1]) # Upper(its[k][1])}}

NoRequest == [kind |-> "none", property |-> {}, nodes |-> <<>>]

\* BootstrapClusterRequest(metadata_replication_property=...): lines 242-244
BootstrapClusterRequest(property) ==
  [kind |-> "bootstrapCluster", property |-> property, nodes |-> <<>>]

\* RemoveNodesRequest(node_filters=[...]): lines 266-271
RemoveNodesRequest(idxs) ==
  [kind |-> "removeNodes", property |-> {}, nodes |-> idxs]

\* ---- state --------------------------------------------------------------
VARIABLES
  pc,                 \* where the edit command is
  ret,                \* its return value, NoRet while running
  nc,                 \* the baseline document (line 116)
  formatted,          \* its canonical text (line 121)
  edited_text,        \* line 123 / 126
  edited_nc,          \* the parsed, then reconciled, document
  edited_nc_json_str, \* line 149
  nc_bin,             \* line 169
  attempt,            \* history: what happened in the current iteration
  handed,             \* the temporary file's text while the editor runs
  lastSaved,          \* history: text the last successful editor run returned
  usedNc,             \* history: baseline the last validation compared with
  shownDoc,           \* history: document whose diff was last displayed
  written,            \* history: document of the last write call
  lastChoice,         \* history: last answer at "What to do now?"
  nowRead,            \* history: clock value read by the last reconciliation
  resaved,            \* history: the last editor run returned its seed text
  fetchCalls, editorCalls, encodeCalls, writeCalls,
  cmd,                \* the command that was invoked
  items,              \* bootstrap: metadata_replicate_across.items()
  node_indexes,       \* shrink: node_indexes
  rpcRequest,         \* the request of the admin RPC in flight or sent
  rpcCalls            \* history: admin RPC calls issued

vars ==
  <<pc, ret, nc, formatted, edited_text, edited_nc, edited_nc_json_str,
    nc_bin, attempt, handed, lastSaved, usedNc, shownDoc, written,
    lastChoice, nowRead, resaved, fetchCalls, editorCalls, encodeCalls,
    writeCalls, cmd, items, node_indexes, rpcRequest, rpcCalls>>

\* What the edit command never touches.
adminVars == <<cmd, items, node_indexes, rpcRequest, rpcCalls>>

NoRet == 0 - 1

\* The command fell off its end: Python returns None.
NoneRet == 0 - 2

Init ==
  /\ cmd \in Commands
  /\ pc = IF cmd = "edit" THEN "Fetching" ELSE "Start"
  /\ items \in IF cmd = "bootstrap" THEN ItemSeqs ELSE {<<>>}
  /\ node_indexes \in IF cmd = "shrink" THEN IndexSeqs ELSE {<<>>}
  /\ rpcRequest = NoRequest
  /\ rpcCalls = 0
  /\ resaved = FALSE
  /\ ret = NoRet
  /\ nc = NoDoc
  /\ formatted = NoText
  /\ edited_text = NoText
  /\ edited_nc = NoDoc
  /\ edited_nc_json_str = NoText
  /\ nc_bin = NoDoc
  /\ attempt = <<>>
  /\ handed = NoText
  /\ lastSaved = NoText
  /\ usedNc = NoDoc
  /\ shownDoc = NoDoc
  /\ written = NoDoc
  /\ lastChoice = "0"
  /\ nowRead = 0
  /\ fetchCalls = 0
  /\ editorCalls = 0
  /\ encodeCalls = 0
  /\ writeCalls = 0

\* ---- Fetching: lines 114-121 ----------------------------------------------
FetchOk ==
  /\ pc = "Fetching"
  /\ \E d \in BaseDocs :
       /\ nc' = d
       /\ formatted' = Dumps(d)
  /\ fetchCalls' = fetchCalls + 1
  /\ pc' = "Editing"
  /\ UNCHANGED <<ret, edited_text, edited_nc, edited_nc_json_str, nc_bin,
                 attempt, handed, lastSaved, usedNc, shownDoc, written,
                 lastChoice, nowRead, editorCalls, encodeCalls, writeCalls,
                 resaved, adminVars>>

\* Variant: the fetch error is swallowed and the loop starts anyway.
FetchFailsContinues ==
  /\ pc = "Fetching"
  /\ fetchCalls' = fetchCalls + 1
  /\ pc' = "Editing"
  /\ UNCHANGED ret
  /\ UNCHANGED <<nc, formatted, edited_text, edited_nc, edited_nc_json_str,
                 nc_bin, attempt, handed, lastSaved, usedNc, shownDoc,
                 written, lastChoice, nowRead, editorCalls, encodeCalls, writeCalls,
                 resaved, adminVars>>

\* _get_client or _get_nodes_config raises: lines 117-119
FetchFails ==
  /\ pc = "Fetching"
  /\ fetchCalls' = fetchCalls + 1
  /\ pc' = "Failed"
  /\ ret' = 1
  /\ UNCHANGED <<nc, formatted, edited_text, edited_nc, edited_nc_json_str,
                 nc_bin, attempt, handed, lastSaved, usedNc, shownDoc,
                 written, lastChoice, nowRead, editorCalls, encodeCalls, writeCalls,
                 resaved, adminVars>>

\* ---- Editing and Validating: lines 125-154 --------------------------------
\* Variant: every editor run starts from the baseline text.
SeedTextBaseline == formatted

\* The text the editor's temporary file is seeded with: line 127
SeedText == IF edited_text = NoText THEN formatted ELSE edited_text

\* Every iteration starts by writing the seed text to a temporary file and
\* starting the editor on it: lines 126-128, 64-72.  The command blocks in
\* pr.wait() until the editor exits.
OpenEditor ==
  /\ pc = "Editing"
  /\ editorCalls < MaxAttempts
  /\ editorCalls' = editorCalls + 1
  /\ handed' = SeedText
  /\ attempt' = <<"editor">>
  /\ usedNc' = NoDoc
  /\ shownDoc' = NoDoc
  /\ written' = NoDoc
  /\ lastChoice' = "0"
  /\ nowRead' = 0
  /\ resaved' = FALSE
  /\ pc' = "InEditor"
  /\ UNCHANGED <<ret, nc, formatted, edited_text, edited_nc,
                 edited_nc_json_str, nc_bin, lastSaved, fetchCalls,
                 encodeCalls, writeCalls,
                 adminVars>>

\* The editor exits with a non-zero status: lines 73-74, then 179-181
EditorFails ==
  /\ pc = "InEditor"
  /\ handed' = NoText
  /\ attempt' = Append(attempt, "EditorFailure")
  /\ pc' = "TryAgain"
  /\ UNCHANGED <<ret, nc, formatted, edited_text, edited_nc,
                 edited_nc_json_str, nc_bin, lastSaved, usedNc, shownDoc,
                 written, lastChoice, nowRead, fetchCalls, editorCalls, encodeCalls,
                 writeCalls,
                 resaved, adminVars>>

\* The saved text is not JSON: line 129 raises, then 179-181
ParseFails(new_text) ==
  /\ pc = "InEditor"
  /\ LoadsRaises(new_text)
  /\ handed' = NoText
  /\ resaved' = (new_text = handed)
  /\ edited_text' = new_text
  /\ lastSaved' = new_text
  /\ attempt' = attempt \o <<"saved", "ParseFailure">>
  /\ pc' = "TryAgain"
  /\ UNCHANGED <<ret, nc, formatted, edited_nc, edited_nc_json_str, nc_bin,
                 usedNc, shownDoc, written, lastChoice, nowRead, fetchCalls,
                 editorCalls, encodeCalls, writeCalls,
                 adminVars>>

\* The saved text re-serializes to the baseline's lines: lines 129-137, then
\* 179-181
NoChanges(new_text) ==
  /\ pc = "InEditor"
  /\ ~LoadsRaises(new_text)
  /\ Unchanged(nc, new_text)
  /\ handed' = NoText
  /\ resaved' = (new_text = handed)
  /\ edited_text' = new_text
  /\ lastSaved' = new_text
  /\ edited_nc' = Loads(new_text).doc
  /\ usedNc' = nc
  /\ attempt' = attempt \o <<"saved", "parsed", "NoChangesFailure">>
  /\ pc' = "TryAgain"
  /\ UNCHANGED <<ret, nc, formatted, edited_nc_json_str, nc_bin, shownDoc,
                 written, lastChoice, nowRead, fetchCalls, editorCalls, encodeCalls,
                 writeCalls,
                 adminVars>>

\* The saved text is JSON but not an object: edited_nc.get at line 139 raises
\* AttributeError, which line 179 does not catch.
NotAMapping(new_text) ==
  /\ pc = "InEditor"
  /\ ~LoadsRaises(new_text)
  /\ ~Unchanged(nc, new_text)
  /\ Loads(new_text).type # "dict"
  /\ handed' = NoText
  /\ resaved' = (new_text = handed)
  /\ edited_text' = new_text
  /\ lastSaved' = new_text
  /\ edited_nc' = Loads(new_text).doc
  /\ usedNc' = nc
  /\ attempt' = attempt \o <<"saved", "parsed", "changed", "AttributeError">>
  /\ pc' = "Crashed"
  /\ UNCHANGED <<ret, nc, formatted, edited_nc_json_str, nc_bin, shownDoc,
                 written, lastChoice, nowRead, fetchCalls, editorCalls, encodeCalls,
                 writeCalls,
                 adminVars>>

\* The saved text is a changed document: lines 129-154, up to the prompt.
\* now is int(time.time() * 1000) at line 146.
Validated(new_text, now) ==
  /\ pc = "InEditor"
  /\ ~LoadsRaises(new_text)
  /\ ~Unchanged(nc, new_text)
  /\ Loads(new_text).type = "dict"
  /\ handed' = NoText
  /\ resaved' = (new_text = handed)
  /\ edited_text' = new_text
  /\ lastSaved' = new_text
  /\ edited_nc' = Reconcile(Loads(new_text).doc, nc, now)
  /\ edited_nc_json_str' = Dumps(edited_nc')
  /\ shownDoc' = Loads(edited_nc_json_str').doc
  /\ usedNc' = nc
  /\ nowRead' = now
  /\ attempt' = attempt \o <<"saved", "parsed", "changed", "reconciled">>
  /\ pc' = "Confirming"
  /\ UNCHANGED <<ret, nc, formatted, nc_bin, written, lastChoice,
                 fetchCalls, editorCalls, encodeCalls, writeCalls,
                 adminVars>>

\* ---- Confirming: lines 156-164 --------------------------------------------
\* choice == "1": falls through to line 168
ChooseApply ==
  /\ pc = "Confirming"
  /\ lastChoice' = "1"
  /\ attempt' = Append(attempt, "Apply")
  /\ pc' = "Encoding"
  /\ UNCHANGED <<nowRead, ret, nc, formatted, edited_text, edited_nc,
                 edited_nc_json_str, nc_bin, handed, lastSaved, usedNc,
                 shownDoc, written, fetchCalls, editorCalls, encodeCalls,
                 writeCalls,
                 resaved, adminVars>>

\* choice == "2": continue (lines 161-162)
ChooseEdit ==
  /\ pc = "Confirming"
  /\ lastChoice' = "2"
  /\ attempt' = Append(attempt, "EditAgain")
  /\ pc' = "Editing"
  /\ UNCHANGED <<nowRead, ret, nc, formatted, edited_text, edited_nc,
                 edited_nc_json_str, nc_bin, handed, lastSaved, usedNc,
                 shownDoc, written, fetchCalls, editorCalls, encodeCalls,
                 writeCalls,
                 resaved, adminVars>>

\* Variant: "3" is handled like "2".
ChooseCancelContinues ==
  /\ pc = "Confirming"
  /\ lastChoice' = "3"
  /\ attempt' = Append(attempt, "Cancel")
  /\ pc' = "Editing"
  /\ UNCHANGED <<nowRead, ret, nc, formatted, edited_text, edited_nc,
                 edited_nc_json_str, nc_bin, handed, lastSaved, usedNc,
                 shownDoc, written, fetchCalls, editorCalls, encodeCalls,
                 writeCalls,
                 resaved, adminVars>>

\* choice == "3": break (lines 163-164), then return 0 (line 186)
ChooseCancel ==
  /\ pc = "Confirming"
  /\ lastChoice' = "3"
  /\ attempt' = Append(attempt, "Cancel")
  /\ pc' = "Done"
  /\ ret' = 0
  /\ UNCHANGED <<nowRead, nc, formatted, edited_text, edited_nc, edited_nc_json_str,
                 nc_bin, handed, lastSaved, usedNc, shownDoc, written,
                 fetchCalls, editorCalls, encodeCalls, writeCalls,
                 resaved, adminVars>>

\* ---- Applying: lines 166-177 ----------------------------------------------
\* Variant: the text the user saved is encoded, not the reconciled document.
EncodeOkFromSavedText ==
  /\ pc = "Encoding"
  /\ encodeCalls' = encodeCalls + 1
  /\ nc_bin' = Loads(edited_text).doc
  /\ attempt' = Append(attempt, "encoded")
  /\ pc' = "Writing"
  /\ UNCHANGED <<ret, nc, formatted, edited_text, edited_nc,
                 edited_nc_json_str, handed, lastSaved, usedNc, shownDoc,
                 written, lastChoice, nowRead, fetchCalls, editorCalls, writeCalls,
                 resaved, adminVars>>

\* ncm.json_to_nodes_configuration succeeds: lines 168-169
EncodeOk ==
  /\ pc = "Encoding"
  /\ encodeCalls' = encodeCalls + 1
  /\ nc_bin' = Loads(edited_nc_json_str).doc
  /\ attempt' = Append(attempt, "encoded")
  /\ pc' = "Writing"
  /\ UNCHANGED <<ret, nc, formatted, edited_text, edited_nc,
                 edited_nc_json_str, handed, lastSaved, usedNc, shownDoc,
                 written, lastChoice, nowRead, fetchCalls, editorCalls, writeCalls,
                 resaved, adminVars>>

\* Variant: the encoding error is swallowed and the write goes ahead.
EncodeFailsThenWrites ==
  /\ pc = "Encoding"
  /\ encodeCalls' = encodeCalls + 1
  /\ attempt' = Append(attempt, "EncodingFailure")
  /\ pc' = "Writing"
  /\ UNCHANGED <<ret, nc, formatted, edited_text, edited_nc,
                 edited_nc_json_str, nc_bin, handed, lastSaved, usedNc,
                 shownDoc, written, lastChoice, nowRead, fetchCalls,
                 editorCalls, writeCalls,
                 resaved, adminVars>>

\* ncm.json_to_nodes_configuration raises: lines 170-171, then 179-181
EncodeFails ==
  /\ pc = "Encoding"
  /\ encodeCalls' = encodeCalls + 1
  /\ attempt' = Append(attempt, "EncodingFailure")
  /\ pc' = "TryAgain"
  /\ UNCHANGED <<ret, nc, formatted, edited_text, edited_nc,
                 edited_nc_json_str, nc_bin, handed, lastSaved, usedNc,
                 shownDoc, written, lastChoice, nowRead, fetchCalls, editorCalls,
                 writeCalls,
                 resaved, adminVars>>

\* Variant: a successful write is followed by continue instead of break.
WriteOkContinues ==
  /\ pc = "Writing"
  /\ writeCalls' = writeCalls + 1
  /\ written' = nc_bin
  /\ attempt' = Append(attempt, "written")
  /\ pc' = "Editing"
  /\ UNCHANGED ret
  /\ UNCHANGED <<nc, formatted, edited_text, edited_nc, edited_nc_json_str,
                 nc_bin, handed, lastSaved, usedNc, shownDoc, lastChoice, nowRead,
                 fetchCalls, editorCalls, encodeCalls,
                 resaved, adminVars>>

\* ncm.overwrite_nodes_configuration succeeds: lines 173-175, then return 0
WriteOk ==
  /\ pc = "Writing"
  /\ writeCalls' = writeCalls + 1
  /\ written' = nc_bin
  /\ attempt' = Append(attempt, "written")
  /\ pc' = "Done"
  /\ ret' = 0
  /\ UNCHANGED <<nc, formatted, edited_text, edited_nc, edited_nc_json_str,
                 nc_bin, handed, lastSaved, usedNc, shownDoc, lastChoice, nowRead,
                 fetchCalls, editorCalls, encodeCalls,
                 resaved, adminVars>>

\* Variant: the write error is not wrapped in NCMError and escapes line 179.
WriteFailsUncaught ==
  /\ pc = "Writing"
  /\ writeCalls' = writeCalls + 1
  /\ written' = nc_bin
  /\ attempt' = Append(attempt, "WriteFailure")
  /\ pc' = "Crashed"
  /\ UNCHANGED <<ret, nc, formatted, edited_text, edited_nc,
                 edited_nc_json_str, nc_bin, handed, lastSaved, usedNc,
                 shownDoc, lastChoice, nowRead, fetchCalls, editorCalls,
                 encodeCalls,
                 resaved, adminVars>>

\* ncm.overwrite_nodes_configuration raises: lines 176-177, then 179-181
WriteFails ==
  /\ pc = "Writing"
  /\ writeCalls' = writeCalls + 1
  /\ written' = nc_bin
  /\ attempt' = Append(attempt, "WriteFailure")
  /\ pc' = "TryAgain"
  /\ UNCHANGED <<ret, nc, formatted, edited_text, edited_nc,
                 edited_nc_json_str, nc_bin, handed, lastSaved, usedNc,
                 shownDoc, lastChoice, nowRead, fetchCalls, editorCalls, encodeCalls,
                 resaved, adminVars>>

\* ---- "Try again?": lines 179-184 ------------------------------------------
\* Variant: a retry fetches the document again.
TryAgainYesRefetch ==
  /\ pc = "TryAgain"
  /\ attempt' = Append(attempt, "Yes")
  /\ pc' = "Editing"
  /\ \E d \in BaseDocs :
       /\ nc' = d
       /\ formatted' = Dumps(d)
  /\ fetchCalls' = fetchCalls + 1
  /\ UNCHANGED <<ret, edited_text, edited_nc, edited_nc_json_str, nc_bin,
                 handed, lastSaved, usedNc, shownDoc, written, lastChoice,
                 nowRead, editorCalls, encodeCalls, writeCalls,
                 resaved, adminVars>>

\* confirm_prompt returns True: continue (line 184)
TryAgainYes ==
  /\ pc = "TryAgain"
  /\ attempt' = Append(attempt, "Yes")
  /\ pc' = "Editing"
  /\ UNCHANGED <<ret, nc, formatted, edited_text, edited_nc,
                 edited_nc_json_str, nc_bin, handed, lastSaved, usedNc,
                 shownDoc, written, lastChoice, nowRead, fetchCalls, editorCalls,
                 encodeCalls, writeCalls,
                 resaved, adminVars>>

\* confirm_prompt returns False: break (line 182), then return 0 (line 186)
TryAgainNo ==
  /\ pc = "TryAgain"
  /\ attempt' = Append(attempt, "No")
  /\ pc' = "Done"
  /\ ret' = 0
  /\ UNCHANGED <<nc, formatted, edited_text, edited_nc, edited_nc_json_str,
                 nc_bin, handed, lastSaved, usedNc, shownDoc, written,
                 lastChoice, nowRead, fetchCalls, editorCalls, encodeCalls, writeCalls,
                 resaved, adminVars>>

\* ---- show: lines 89-106 ---------------------------------------------------
\* The document is fetched and printed: lines 92-94, 99-106
ShowOk ==
  /\ cmd = "show"
  /\ pc = "Start"
  /\ fetchCalls' = fetchCalls + 1
  /\ pc' = "Done"
  /\ ret' = 0
  /\ UNCHANGED <<rpcRequest, rpcCalls>>
  /\ UNCHANGED <<nc, formatted, edited_text, edited_nc, edited_nc_json_str,
                 nc_bin, attempt, handed, lastSaved, usedNc, shownDoc,
                 written, lastChoice, nowRead, resaved, editorCalls,
                 encodeCalls, writeCalls, cmd, items, node_indexes>>

\* _get_client or _get_nodes_config raises: lines 95-97
ShowFails ==
  /\ cmd = "show"
  /\ pc = "Start"
  /\ fetchCalls' = fetchCalls + 1
  /\ pc' = "Failed"
  /\ ret' = 1
  /\ UNCHANGED <<rpcRequest, rpcCalls>>
  /\ UNCHANGED <<nc, formatted, edited_text, edited_nc, edited_nc_json_str,
                 nc_bin, attempt, handed, lastSaved, usedNc, shownDoc,
                 written, lastChoice, nowRead, resaved, editorCalls,
                 encodeCalls, writeCalls, cmd, items, node_indexes>>

\* ---- bootstrap: lines 210-251 ---------------------------------------------
\* Some scope name is not a member of LocationScope: lines 228-236
BootstrapInvalidScope ==
  /\ cmd = "bootstrap"
  /\ pc = "Start"
  /\ HasInvalidScope(items)
  /\ pc' = "Failed"
  /\ ret' = 1
  /\ UNCHANGED <<fetchCalls, rpcRequest, rpcCalls>>
  /\ UNCHANGED <<nc, formatted, edited_text, edited_nc, edited_nc_json_str,
                 nc_bin, attempt, handed, lastSaved, usedNc, shownDoc,
                 written, lastChoice, nowRead, resaved, editorCalls,
                 encodeCalls, writeCalls, cmd, items, node_indexes>>

\* Every scope name is a member: lines 228-233, then the call of line 241
\* is issued and awaited.
BootstrapCall ==
  /\ cmd = "bootstrap"
  /\ pc = "Start"
  /\ ~HasInvalidScope(items)
  /\ rpcRequest' = BootstrapClusterRequest(ReplicationProperty(items))
  /\ rpcCalls' = rpcCalls + 1
  /\ pc' = "Rpc"
  /\ UNCHANGED <<ret, fetchCalls>>
  /\ UNCHANGED <<nc, formatted, edited_text, edited_nc, edited_nc_json_str,
                 nc_bin, attempt, handed, lastSaved, usedNc, shownDoc,
                 written, lastChoice, nowRead, resaved, editorCalls,
                 encodeCalls, writeCalls, cmd, items, node_indexes>>

\* ---- shrink: lines 255-278 ------------------------------------------------
\* The call of line 265 is issued and awaited.
ShrinkCall ==
  /\ cmd = "shrink"
  /\ pc = "Start"
  /\ rpcRequest' = RemoveNodesRequest(node_indexes)
  /\ rpcCalls' = rpcCalls + 1
  /\ pc' = "Rpc"
  /\ UNCHANGED <<ret, fetchCalls>>
  /\ UNCHANGED <<nc, formatted, edited_text, edited_nc, edited_nc_json_str,
                 nc_bin, attempt, handed, lastSaved, usedNc, shownDoc,
                 written, lastChoice, nowRead, resaved, editorCalls,
                 encodeCalls, writeCalls, cmd, items, node_indexes>>

\* ---- the awaited call returns: lines 248 and 275 --------------------------
\* Success is printed and the command falls off its end.
RpcOk ==
  /\ pc = "Rpc"
  /\ pc' = "Done"
  /\ ret' = NoneRet
  /\ UNCHANGED <<fetchCalls, rpcRequest, rpcCalls>>
  /\ UNCHANGED <<nc, formatted, edited_text, edited_nc, edited_nc_json_str,
                 nc_bin, attempt, handed, lastSaved, usedNc, shownDoc,
                 written, lastChoice, nowRead, resaved, editorCalls,
                 encodeCalls, writeCalls, cmd, items, node_indexes>>

\* Variant: a failed call is issued again.
RpcFailsRetries ==
  /\ pc = "Rpc"
  /\ rpcCalls < 3
  /\ rpcCalls' = rpcCalls + 1
  /\ pc' = "Rpc"
  /\ UNCHANGED <<ret, fetchCalls, rpcRequest>>
  /\ UNCHANGED <<nc, formatted, edited_text, edited_nc, edited_nc_json_str,
                 nc_bin, attempt, handed, lastSaved, usedNc, shownDoc,
                 written, lastChoice, nowRead, resaved, editorCalls,
                 encodeCalls, writeCalls, cmd, items, node_indexes>>

\* The call raises (timeout, remote rejection): lines 249-251 and 276-278
RpcFails ==
  /\ pc = "Rpc"
  /\ pc' = "Failed"
  /\ ret' = 1
  /\ UNCHANGED <<fetchCalls, rpcRequest, rpcCalls>>
  /\ UNCHANGED <<nc, formatted, edited_text, edited_nc, edited_nc_json_str,
                 nc_bin, attempt, handed, lastSaved, usedNc, shownDoc,
                 written, lastChoice, nowRead, resaved, editorCalls,
                 encodeCalls, writeCalls, cmd, items, node_indexes>>

\* ---- specification --------------------------------------------------------
Next ==
  \/ FetchOk
  \/ FetchFails
  \/ OpenEditor
  \/ EditorFails
  \/ \E t \in Texts : ParseFails(t)
  \/ \E t \in Texts : NoChanges(t)
  \/ \E t \in Texts : NotAMapping(t)
  \/ \E t \in Texts : \E now \in Times : Validated(t, now)
  \/ ChooseApply
  \/ ChooseEdit
  \/ ChooseCancel
  \/ EncodeOk
  \/ EncodeFails
  \/ WriteOk
  \/ WriteFails
  \/ TryAgainYes
  \/ TryAgainNo
  \/ ShowOk
  \/ ShowFails
  \/ BootstrapInvalidScope
  \/ BootstrapCall
  \/ ShrinkCall
  \/ RpcOk
  \/ RpcFails

Spec == Init /\ [][Next]_vars

\* ---- properties -----------------------------------------------------------
Last(s) == s[Len(s)]

InSeq(x, s) == \E i \in 1..Len(s) : s[i] = x

\* The document the user saved in the current iteration, before
\* reconciliation.
SavedDoc == lastSaved.doc

Failures ==
  {"EditorFailure", "ParseFailure", "NoChangesFailure", "EncodingFailure",
   "WriteFailure"}

\* C1: every document handed to the encode step, to the write step, or
\* written has a version different from the baseline's version.
C1_AppliedVersionDiffersFromBaseline ==
  /\ pc \in {"Encoding", "Writing"}
       => Loads(edited_nc_json_str).doc.version # nc.version
  /\ pc = "Writing" => nc_bin.version # nc.version
  /\ written # NoDoc => written.version # nc.version

\* C1 witness: in a later iteration the user left the version as fetched and
\* the document reached the write step.
C1_Witness ==
  /\ pc = "Writing"
  /\ editorCalls >= 2
  /\ SavedDoc.version = nc.version

\* C2: an iteration whose saved text is the baseline document in any layout
\* ends with the no-changes failure at the retry prompt; it never reaches
\* the Confirming prompt, the encode call or the write call.
C2_NoOpEditFails ==
  (InSeq("saved", attempt) /\ lastSaved.kind = "object" /\ SavedDoc = nc)
    => /\ pc \in {"TryAgain", "Editing", "Done"}
       /\ SubSeq(attempt, 1, 4)
            = <<"editor", "saved", "parsed", "NoChangesFailure">>
       /\ Len(attempt) <= 5
       /\ lastChoice = "0"
       /\ written = NoDoc

\* C2 witness: a whitespace-only change of the fetched text was refused.
C2_Witness ==
  /\ pc = "TryAgain"
  /\ lastSaved = [kind |-> "object", doc |-> nc, layout |-> 1]
  /\ Last(attempt) = "NoChangesFailure"

\* C3: a write call is issued only after, in this order and in the same
\* iteration, the text parsed, the no-change check passed, reconciliation
\* ran, the user chose Apply and encoding succeeded; after an encoding
\* failure the iteration issues no write call.
C3_WriteOnlyAfterFullPipeline ==
  [][/\ writeCalls' # writeCalls
          => attempt = <<"editor", "saved", "parsed", "changed",
                         "reconciled", "Apply", "encoded">>
     /\ (InSeq("EncodingFailure", attempt) /\ editorCalls' = editorCalls)
          => writeCalls' = writeCalls]_vars

\* C3 witness: a write was issued in an iteration that followed one with an
\* encoding failure.
C3_Witness ==
  /\ writeCalls = 1
  /\ encodeCalls >= 2
  /\ Last(attempt) = "written"

\* C4: choosing Cancel ends the session at once with status 0: nothing was
\* written in that iteration and no editor, encode or write call follows.
C4_CancelEndsSession ==
  [][/\ lastChoice' = "3"
          => pc' = "Done" /\ ret' = 0 /\ written' = NoDoc
     /\ lastChoice = "3"
          => UNCHANGED <<editorCalls, encodeCalls, writeCalls>>]_vars

\* C4 witness: the user cancelled in a later iteration.
C4_Witness ==
  /\ lastChoice = "3"
  /\ pc = "Done"
  /\ editorCalls >= 2

\* C5: in the edit command the baseline is fetched once; after the fetch neither the baseline
\* nor its text changes and no further fetch is issued, and every
\* validation compares with that baseline.
C5_BaselineFixed ==
  [][/\ (cmd = "edit" /\ pc # "Fetching")
          => nc' = nc /\ formatted' = formatted /\ fetchCalls' = fetchCalls
     /\ fetchCalls' <= 1
     /\ usedNc' \in {NoDoc, nc'}]_vars

\* C5 witness: the third iteration, after a failed write, validated against
\* the baseline.
C5_Witness ==
  /\ pc = "Confirming"
  /\ editorCalls = MaxAttempts
  /\ writeCalls >= 1
  /\ usedNc = nc

\* C6: at the Confirming prompt, a saved version equal to the baseline's
\* has become the baseline's version plus one, and a saved version that
\* differs from the baseline's is kept as saved.
C6_VersionReconciled ==
  pc = "Confirming"
    => /\ SavedDoc.version = nc.version
            => edited_nc.version = nc.version + 1
       /\ (SavedDoc.version # Absent /\ SavedDoc.version # nc.version)
            => edited_nc.version = SavedDoc.version

\* C6 witness: the user changed the payload and left the version as
\* fetched.
C6_Witness ==
  /\ pc = "Confirming"
  /\ SavedDoc.version = nc.version
  /\ SavedDoc.nodes # nc.nodes

\* C7 as stated: every written document has a version strictly greater than
\* the baseline's.
C7_WrittenVersionGreater ==
  written # NoDoc => written.version > nc.version

\* C7 amended: a written document has the version the user saved when that
\* is lower than the baseline's, and otherwise a version strictly greater
\* than the baseline's.
C7_WrittenVersionGreaterUnlessLowered ==
  written # NoDoc
    => IF SavedDoc.version # Absent /\ SavedDoc.version < nc.version
         THEN written.version = SavedDoc.version
         ELSE written.version > nc.version

\* C7 witness: a document was written whose version the user had left as
\* fetched.
C7_Witness ==
  /\ written # NoDoc
  /\ SavedDoc.version = nc.version
  /\ written.version = nc.version + 1

C9_EditorSeededWithLastSavedText ==
  pc = "InEditor"
    => handed = IF lastSaved = NoText THEN Dumps(nc) ELSE lastSaved

\* C9 witness: the editor was reopened on the malformed text the user saved.
C9_Witness ==
  /\ pc = "InEditor"
  /\ editorCalls >= 2
  /\ handed = MalformedText

\* C10: each of the five failures leads to the "Try again?" prompt; No ends
\* the session with status 0 and Yes goes back to Editing; once the session
\* has ended no editor, encode or write call follows.
C10_FailuresOfferRetry ==
  [][/\ (attempt' # attempt /\ Last(attempt') \in Failures)
          => pc' = "TryAgain"
     /\ pc = "TryAgain"
          => \/ Last(attempt') = "Yes" /\ pc' = "Editing"
             \/ Last(attempt') = "No" /\ pc' = "Done" /\ ret' = 0
     /\ pc = "Done"
          => UNCHANGED <<editorCalls, encodeCalls, writeCalls>>]_vars

\* C10 witness: the user declined to retry after a failed write.
C10_Witness ==
  /\ pc = "Done"
  /\ attempt = <<"editor", "saved", "parsed", "changed", "reconciled",
                 "Apply", "encoded", "WriteFailure", "No">>

FetchFailed == cmd = "edit" /\ fetchCalls >= 1 /\ formatted = NoText

\* C11: when the fetch of the edit command fails, the command is over with
\* status 1: no editor run, no prompt, no encode call and no write call.
C11_FetchFailureAborts ==
  FetchFailed
    => /\ pc = "Failed"
       /\ ret = 1
       /\ editorCalls = 0 /\ encodeCalls = 0 /\ writeCalls = 0
       /\ attempt = <<>>
       /\ lastChoice = "0"

\* C11 witness: the edit command ended on a failed fetch.
C11_Witness ==
  /\ cmd = "edit"
  /\ pc = "Failed"
  /\ fetchCalls = 1

\* C12: the document whose diff is displayed is the reconciled one, and the
\* document that is encoded and written is that same document.
C12_WrittenIsWhatWasShown ==
  /\ pc \in {"Confirming", "Encoding", "Writing"}
       => /\ shownDoc = Reconcile(SavedDoc, nc, nowRead)
          /\ Loads(edited_nc_json_str).doc = shownDoc
  /\ pc = "Writing" => nc_bin = shownDoc
  /\ written # NoDoc => written = shownDoc

\* C12 witness: a document that reconciliation changed was written.
C12_Witness ==
  /\ written # NoDoc
  /\ written # SavedDoc
  /\ pc = "Done"

LoopStates ==
  {"Editing", "InEditor", "Confirming", "Encoding", "Writing", "TryAgain"}

\* C13 as stated: after a successful fetch the edit loop is left only by a
\* successful write, by Cancel, or by No at "Try again?".
C13_LoopEndsOnlyThreeWays ==
  (cmd = "edit" /\ formatted # NoText /\ pc \notin LoopStates)
    => Last(attempt) \in {"written", "Cancel", "No"}

Recognized(name) == name \in {"node", "rack", "RACK"}

\* C14: bootstrap with a scope name that is not a member of the enumeration
\* in any letter case ends with status 1 and no call; the call is issued
\* exactly when every name is a member.
C14_BootstrapRejectsUnknownScope ==
  (cmd = "bootstrap" /\ pc # "Start")
    => IF \A i \in 1..Len(items) : Recognized(items[i][1])
         THEN rpcCalls = 1 /\ rpcRequest.kind = "bootstrapCluster"
         ELSE pc = "Failed" /\ ret = 1 /\ rpcCalls = 0
                /\ rpcRequest = NoRequest

\* C14 witness: bootstrap with the name "galaxy" was refused without a call.
C14_Witness ==
  /\ cmd = "bootstrap"
  /\ pc = "Failed"
  /\ rpcCalls = 0
  /\ \E i \in 1..Len(items) : items[i][1] = "galaxy"

\* C15: bootstrap and shrink issue their call at most once; a failed call
\* ends the command with status 1 and is not repeated.
C15_RpcNotRetried ==
  [][/\ rpcCalls' <= 1
     /\ pc = "Rpc" => rpcCalls' = rpcCalls /\ pc' \in {"Done", "Failed"}
     /\ (pc = "Rpc" /\ pc' = "Failed") => ret' = 1
     /\ pc \in {"Done", "Failed"} => rpcCalls' = rpcCalls]_vars

\* C15 witness: shrink of nodes 7 and 9 was rejected by the remote side.
C15_Witness ==
  /\ cmd = "shrink"
  /\ node_indexes = <<7, 9>>
  /\ pc = "Failed"
  /\ rpcCalls = 1
  /\ ret = 1

\* C16 as stated: a command that succeeded returns 0 and one that failed
\* returns 1.
C16_ExitStatus ==
  /\ pc = "Done" => ret = 0
  /\ pc = "Failed" => ret = 1

\* C17: reconciliation leaves every key other than version and
\* last_timestamp as the user saved it, in the reconciled and in the written
\* document, and leaves the baseline as it was.
C17_ReconcileFrame ==
  [][/\ (pc = "InEditor" /\ pc' = "Confirming")
          => /\ edited_nc'.nodes = lastSaved'.doc.nodes
             /\ nc' = nc
             /\ formatted' = formatted
     /\ written' # NoDoc => written'.nodes = lastSaved'.doc.nodes]_vars

\* C17 witness: the user changed the payload only and reconciliation set
\* the version.
C17_Witness ==
  /\ pc = "Confirming"
  /\ SavedDoc.nodes # nc.nodes
  /\ SavedDoc.version = nc.version
  /\ edited_nc.version # SavedDoc.version

\* C18 as stated: saved text that is not a JSON object ends in the
\* recoverable parse failure and never in an uncaught error.
C18_NonDocumentIsParseFailure ==
  (InSeq("saved", attempt) /\ lastSaved.kind # "object")
    => /\ pc # "Crashed"
       /\ InSeq("ParseFailure", attempt)

\* The iteration ended with the no-changes failure before the prompt.
EndedWithNoChanges ==
  /\ InSeq("NoChangesFailure", attempt)
  /\ lastChoice = "0"
  /\ pc \in {"TryAgain", "Editing", "Done"}

\* C19 as stated: whenever the editor returns the text it was handed, the
\* iteration ends with the no-changes failure.
C19_ResaveIsNoChanges ==
  resaved => EndedWithNoChanges

\* C19 amended: in the first Editing step a resave ends with the no-changes
\* failure; in a later step a resaved document ends with it exactly when it
\* is the baseline document, and otherwise reaches the Confirming prompt.
C19_ResaveJudgedAgainstBaseline ==
  resaved
    => /\ editorCalls = 1 => EndedWithNoChanges
       /\ lastSaved.kind = "object"
            => IF SavedDoc = nc
                 THEN EndedWithNoChanges
                 ELSE InSeq("reconciled", attempt)

\* C19 witness: after EditAgain or a retry the preloaded text was resaved
\* as it was and reached the Confirming prompt.
C19_Witness ==
  /\ resaved
  /\ editorCalls >= 2
  /\ pc = "Confirming"

\* C20: a successful write ends the session at once with status 0, and
\* after the end there is no further editor run, prompt, encode or write.
C20_OneSuccessfulWrite ==
  [][/\ (attempt' # attempt /\ Last(attempt') = "written")
          => pc' = "Done" /\ ret' = 0
     /\ pc = "Done"
          => UNCHANGED <<editorCalls, encodeCalls, writeCalls, attempt,
                         lastChoice>>]_vars

\* C20 witness: a write succeeded in an iteration after a failed write.
C20_Witness ==
  /\ writeCalls >= 2
  /\ pc = "Done"
  /\ Last(attempt) = "written"

====
